---- MODULE Spec2Model ----
(***************************************************************************)
(* Model of rustmission's key resolution (rm-main/src/action.rs), keymap   *)
(* compilation (rm-config/src/keymap.rs), the torrents-tab popup manager   *)
(* (ui/tabs/torrents/popups/mod.rs) and the torrents tab itself            *)
(* (ui/tabs/torrents/mod.rs).                                              *)
(*                                                                         *)
(* Specifications sharing the module:                                      *)
(*   SpecKeys  - a keymap configuration is compiled with to_map and events *)
(*               are resolved with event_to_action;                        *)
(*   SpecPopup - the PopupManager component driven through its public API; *)
(*   Spec      - the TorrentsTab event loop (render, handle_actions)       *)
(*               interleaved with the background poll tasks, lock by lock; *)
(*   SpecFixed - key resolution under configurations that rebind the keys  *)
(*               with a fixed meaning (digits, Enter, Tab);                *)
(*   SpecParse - a keymap table is deserialised entry by entry and the     *)
(*               accepted bindings are rendered with keycode_string.       *)
(***************************************************************************)
EXTENDS Integers, Sequences, FiniteSets, TLC

\* ------------------------------------------------------------------------
\* Option<T> is a sequence of length 0 (None) or 1 (Some).
None == <<>>
Some(x) == <<x>>
IsSome(o) == Len(o) = 1
Unwrap(o) == o[1]

\* ------------------------------------------------------------------------
\* Bounds of the model.
MaxGeneral == 2       \* longest `general.keybindings` list explored
MaxTorrents == 2      \* longest `torrents_tab.keybindings` list explored

\* ------------------------------------------------------------------------
\* crossterm KeyCode / KeyModifiers / KeyEvent
Char(c) == [kind |-> "Char", c |-> c]
Named(k) == [kind |-> k]
FKey(i) == [kind |-> "F", i |-> i]
KeyEv(code, mods) == [code |-> code, modifiers |-> mods]

\* ------------------------------------------------------------------------
\* enum Action
Act(t) == [tag |-> t]
ChangeTab(n) == [tag |-> "ChangeTab", n |-> n]
Input(key) == [tag |-> "Input", key |-> key]

\* enum Mode
Mode == {"Input", "Normal"}

\* tui::Event, as matched by event_to_action
EvQuit == [ev |-> "Quit"]
EvError == [ev |-> "Error"]
EvRender == [ev |-> "Render"]
EvKey(key) == [ev |-> "Key", key |-> key]

\* char::to_digit(10) on '1'..='9'
DigitChars == {"1", "2", "3", "4", "5", "6", "7", "8", "9"}
to_digit(c) ==
    CASE c = "1" -> 1 [] c = "2" -> 2 [] c = "3" -> 3 [] c = "4" -> 4
      [] c = "5" -> 5 [] c = "6" -> 6 [] c = "7" -> 7 [] c = "8" -> 8
      [] c = "9" -> 9

\* keycode_to_action reduced to its configurable keys: no Tab, digit or Enter arm.
keycode_to_action_NoFixedArms(key) ==
    LET code == key.code IN
    CASE code = Char("j") \/ code = Named("Down") -> Some(Act("Down"))
      [] code = Char("k") \/ code = Named("Up") -> Some(Act("Up"))
      [] code = Char("q") -> Some(Act("Quit"))
      [] code = Char("d") -> Some(Act("DeleteWithoutFiles"))
      [] OTHER -> None

\* fn keycode_to_action(key: KeyEvent) -> Option<Action>: matches key.code only.
keycode_to_action(key) ==
    LET code == key.code IN
    CASE code = Named("Tab") -> Some(Act("ChangeFocus"))
      [] code = Char("j") \/ code = Named("Down") -> Some(Act("Down"))
      [] code = Char("k") \/ code = Named("Up") -> Some(Act("Up"))
      [] code = Char("q") -> Some(Act("Quit"))
      [] code = Char("?") -> Some(Act("ShowHelp"))
      [] code = Char("t") -> Some(Act("ShowStats"))
      [] code = Char("f") -> Some(Act("ShowFiles"))
      [] code = Char("/") -> Some(Act("Search"))
      [] code = Char("a") -> Some(Act("AddMagnet"))
      [] code = Char("p") -> Some(Act("Pause"))
      [] code = Char("d") -> Some(Act("DeleteWithoutFiles"))
      [] code = Char("D") -> Some(Act("DeleteWithFiles"))
      [] code = Char(" ") -> Some(Act("Space"))
      [] code.kind = "Char" /\ code.c \in DigitChars -> Some(ChangeTab(to_digit(code.c)))
      [] code = Named("Enter") -> Some(Act("Confirm"))
      [] OTHER -> None

\* Outcome of a call: a returned value, or a panic (todo!()) that unwinds.
Returned(v) == [ok |-> TRUE, value |-> v]
Panicked == [ok |-> FALSE]

\* event_to_action with the InputMode guard of the Key arm dropped.
event_to_action_NoInputArm(mode, event) ==
    CASE event = EvQuit -> Returned(Some(Act("Quit")))
      [] event = EvError -> Panicked
      [] event = EvRender -> Returned(Some(Act("Render")))
      [] OTHER -> Returned(keycode_to_action(event.key))

\* event_to_action with the Quit and Render arms guarded by NormalMode.
event_to_action_ModalSystem(mode, event) ==
    CASE event = EvQuit -> Returned(IF mode = "Normal" THEN Some(Act("Quit")) ELSE None)
      [] event = EvError -> Panicked
      [] event = EvRender -> Returned(IF mode = "Normal" THEN Some(Act("Render")) ELSE None)
      [] event.ev = "Key" /\ mode = "Input" -> Returned(Some(Input(event.key)))
      [] OTHER -> Returned(keycode_to_action(event.key))

\* pub fn event_to_action(mode: Mode, event: Event) -> Option<Action>
event_to_action(mode, event) ==
    CASE event = EvQuit -> Returned(Some(Act("Quit")))
      [] event = EvError -> Panicked
      [] event = EvRender -> Returned(Some(Act("Render")))
      [] event.ev = "Key" /\ mode = "Input" -> Returned(Some(Input(event.key)))
      [] OTHER -> Returned(keycode_to_action(event.key))

\* ------------------------------------------------------------------------
\* rm-config keymap

\* impl From<GeneralAction> for Action
GeneralAction ==
    {"ShowHelp", "Quit", "SoftQuit", "SwitchToTorrents", "SwitchToSearch", "Left",
     "Right", "Down", "Up", "Search", "SwitchFocus", "Confirm", "ScrollPageDown",
     "ScrollPageUp", "GoToBeginning", "GoToEnd"}
GeneralToAction(value) ==
    CASE value = "ShowHelp" -> Act("ShowHelp")
      [] value = "Quit" -> Act("Quit")
      [] value = "SoftQuit" -> Act("SoftQuit")
      [] value = "SwitchToTorrents" -> ChangeTab(1)
      [] value = "SwitchToSearch" -> ChangeTab(2)
      [] value = "Left" -> Act("Left")
      [] value = "Right" -> Act("Right")
      [] value = "Down" -> Act("Down")
      [] value = "Up" -> Act("Up")
      [] value = "Search" -> Act("Search")
      [] value = "SwitchFocus" -> Act("ChangeFocus")
      [] value = "Confirm" -> Act("Confirm")
      [] value = "ScrollPageDown" -> Act("ScrollDownPage")
      [] value = "ScrollPageUp" -> Act("ScrollUpPage")
      [] value = "GoToBeginning" -> Act("Home")
      [] value = "GoToEnd" -> Act("End")

\* impl From<TorrentsAction> for Action
TorrentsAction ==
    {"AddMagnet", "Pause", "DeleteWithFiles", "DeleteWithoutFiles", "ShowFiles",
     "ShowStats"}
TorrentsToAction(value) ==
    CASE value = "AddMagnet" -> Act("AddMagnet")
      [] value = "Pause" -> Act("Pause")
      [] value = "DeleteWithFiles" -> Act("DeleteWithFiles")
      [] value = "DeleteWithoutFiles" -> Act("DeleteWithoutFiles")
      [] value = "ShowFiles" -> Act("ShowFiles")
      [] value = "ShowStats" -> Act("ShowStats")

\* enum KeyModifier and impl From<KeyModifier> for KeyModifiers
KeyModifier == {"None", "Ctrl", "Shift"}
ModifierToKeyModifiers(value) ==
    CASE value = "None" -> "NONE"
      [] value = "Ctrl" -> "CONTROL"
      [] value = "Shift" -> "SHIFT"

\* struct Keybinding<T> { on, modifier, action }
Keybinding(on, modifier, action) == [on |-> on, modifier |-> modifier, action |-> action]

\* HashMap::insert: the new value replaces the one stored under an equal key.
MapInsert(map, k, v) ==
    [x \in DOMAIN map \cup {k} |-> IF x = k THEN v ELSE map[x]]

\* HashMap::new()
EmptyMap == [x \in {} |-> Act("Quit")]

\* `for keybinding in self.general.keybindings { map.insert(..) }`, from index i on.
RECURSIVE InsertGeneral(_, _, _)
InsertGeneral(map, list, i) ==
    IF i > Len(list) THEN map
    ELSE LET keybinding == list[i]
             hash_value == <<keybinding.on, ModifierToKeyModifiers(keybinding.modifier)>>
         IN InsertGeneral(MapInsert(map, hash_value, GeneralToAction(keybinding.action)),
                          list, i + 1)

\* `for keybinding in self.torrents_tab.keybindings { map.insert(..) }`, from index i on.
RECURSIVE InsertTorrents(_, _, _)
InsertTorrents(map, list, i) ==
    IF i > Len(list) THEN map
    ELSE LET keybinding == list[i]
             hash_value == <<keybinding.on, ModifierToKeyModifiers(keybinding.modifier)>>
         IN InsertTorrents(MapInsert(map, hash_value, TorrentsToAction(keybinding.action)),
                           list, i + 1)

\* to_map with the two loops in the opposite order (torrents_tab merged first).
to_map_TorrentsFirst(config) ==
    InsertGeneral(InsertTorrents(EmptyMap, config.torrents_tab, 1), config.general, 1)

\* pub fn to_map(self) -> HashMap<(KeyCode, KeyModifiers), Action>
to_map(config) ==
    InsertTorrents(InsertGeneral(EmptyMap, config.general, 1), config.torrents_tab, 1)

\* ------------------------------------------------------------------------
\* PopupManager (ui/tabs/torrents/popups/mod.rs)

\* StatisticsPopup::new(ctx, stats): a popup is the statistics snapshot it shows.
StatisticsPopup(stats) == [stats |-> stats]

\* What a popup's own handle_actions may hand back for an action: nothing, the close
\* signal (Action::Quit) or another action.
PopupResults == {None, Some(Act("Quit")), Some(Act("Render")), Some(Act("Confirm"))}

\* PopupManager::new
PopupManager_new == None

\* PopupManager::is_showing_popup
is_showing_popup(popup_slot) == IsSome(popup_slot)

\* show_popup that keeps a popup already on screen.
show_popup_KeepCurrent(popup_slot, popup) ==
    IF IsSome(popup_slot) THEN popup_slot ELSE Some(popup)

\* PopupManager::show_popup
show_popup(popup_slot, popup) == Some(popup)

\* PopupManager::close_popup
close_popup(popup_slot) == None

\* handle_actions that answers Render on the close signal but leaves the popup up.
PopupManager_handle_actions_NoClose(popup_slot, popup_result) ==
    IF IsSome(popup_slot)
    THEN IF popup_result = Some(Act("Quit"))
         THEN [current_popup |-> popup_slot, ret |-> Some(Act("Render"))]
         ELSE [current_popup |-> popup_slot, ret |-> None]
    ELSE [current_popup |-> popup_slot, ret |-> None]

\* handle_actions that hands the popup's own result on to the caller.
PopupManager_handle_actions_PassThrough(popup_slot, popup_result) ==
    IF IsSome(popup_slot)
    THEN IF popup_result = Some(Act("Quit"))
         THEN [current_popup |-> close_popup(popup_slot), ret |-> Some(Act("Render"))]
         ELSE [current_popup |-> popup_slot, ret |-> popup_result]
    ELSE [current_popup |-> popup_slot, ret |-> None]

\* impl Component for PopupManager: handle_actions. popup_result is what
\* popup.handle_actions(action) returned; it is only evaluated when a popup is shown.
PopupManager_handle_actions(popup_slot, popup_result) ==
    IF IsSome(popup_slot)
    THEN IF popup_result = Some(Act("Quit"))
         THEN [current_popup |-> close_popup(popup_slot), ret |-> Some(Act("Render"))]
         ELSE [current_popup |-> popup_slot, ret |-> None]
    ELSE [current_popup |-> popup_slot, ret |-> None]

\* ------------------------------------------------------------------------
\* TorrentsTab (ui/tabs/torrents/mod.rs) and the shared table it works on

LenA == 5             \* length of the sequence the first poll task hands over
LenB == 3             \* length of the sequence the second poll task hands over
MaxSent == 1          \* commands that may wait in the channel to the daemon task

\* A torrent as the table sees it: id, status and name.
Torrent(i) ==
    [id |-> i,
     status |-> IF i % 3 = 0 THEN "Stopped" ELSE IF i % 3 = 1 THEN "Downloading" ELSE "Seeding",
     name |-> IF i % 2 = 0 THEN "a" ELSE "b"]

Pollers == {"poll1", "poll2"}
\* The full list each poll task has fetched and is about to hand over.
PollRows(p) ==
    IF p = "poll1" THEN [i \in 1..LenA |-> Torrent(i)] ELSE [i \in 1..LenB |-> Torrent(10 + i)]

Filters == {None, Some("a")}

\* RustmissionTorrent::to_row(torrent, &filter): the row to draw, or None when the
\* filter hides the torrent.
to_row(torrent, flt) ==
    IF flt = None \/ torrent.name = Unwrap(flt) THEN Some(torrent.id) ELSE None

\* rows.iter().map(to_row).filter_map(|row| row).collect()
RECURSIVE collect_rows(_, _, _)
collect_rows(rs, flt, i) ==
    IF i > Len(rs) THEN <<>>
    ELSE to_row(rs[i], flt) \o collect_rows(rs, flt, i + 1)

\* The torrents the filter lets through, in order.
RECURSIVE filtered(_, _, _)
filtered(rs, flt, i) ==
    IF i > Len(rs) THEN <<>>
    ELSE (IF IsSome(to_row(rs[i], flt)) THEN <<rs[i]>> ELSE <<>>) \o filtered(rs, flt, i + 1)

\* GenericTable: the length next/previous work with.
get_len(tl) == IF IsSome(tl) THEN Unwrap(tl) ELSE 0

\* GenericTable::overwrite_len
overwrite_len(tl, n) == Some(n)

\* Clamping of the cursor to a table of n rows.
clamp_cursor(sel, n) ==
    IF sel = None THEN None
    ELSE IF n = 0 THEN None
    ELSE IF Unwrap(sel) >= n THEN Some(n - 1) ELSE sel

\* GenericTable::next: one row down, stopping at the last row; nothing on an empty table.
table_next(sel, n) ==
    IF n = 0 THEN sel
    ELSE IF sel = None THEN Some(0)
    ELSE IF Unwrap(sel) >= n - 1 THEN Some(n - 1) ELSE Some(Unwrap(sel) + 1)

\* GenericTable::previous: one row up, stopping at the first row.
table_previous(sel, n) ==
    IF n = 0 THEN sel
    ELSE IF sel = None THEN Some(0)
    ELSE IF Unwrap(sel) = 0 THEN Some(0) ELSE Some(Unwrap(sel) - 1)

\* TableManager::current_item: the torrent under the cursor in the filtered view.
current_item(rs, flt, sel) ==
    LET view == filtered(rs, flt, 1) IN
    IF sel = None \/ Unwrap(sel) >= Len(view) THEN None ELSE Some(view[Unwrap(sel) + 1])

\* TorrentAction::Start / TorrentAction::Stop
TorrentAction(kind, ids) == [kind |-> kind, ids |-> ids]

\* Variant: the match without its Stopped arm.
pause_command_AlwaysStop(torrent) == TorrentAction("Stop", <<torrent.id>>)

\* The match of pause_current_torrent on the current torrent's status.
pause_command(torrent) ==
    IF torrent.status = "Stopped"
    THEN TorrentAction("Start", <<torrent.id>>)
    ELSE TorrentAction("Stop", <<torrent.id>>)

\* handle_actions without the early return for a shown popup.
TorrentsTab_route_NoPopupCheck(popup_slot, action) ==
    CASE action = Act("Up") -> "previous_torrent"
      [] action = Act("Down") -> "next_torrent"
      [] action = Act("ShowStats") -> "show_statistics_popup"
      [] action = Act("Pause") -> "pause_current_torrent"
      [] OTHER -> "task"

\* TorrentsTab::handle_actions: who gets the action.
TorrentsTab_route(popup_slot, action) ==
    IF is_showing_popup(popup_slot) THEN "popup_manager"
    ELSE CASE action = Act("Up") -> "previous_torrent"
           [] action = Act("Down") -> "next_torrent"
           [] action = Act("ShowStats") -> "show_statistics_popup"
           [] action = Act("Pause") -> "pause_current_torrent"
           [] OTHER -> "task"

\* ------------------------------------------------------------------------
\* State
VARIABLES
    keymap_config,   \* KeymapConfig { general, torrents_tab }: the deserialized lists
    action_map,      \* the HashMap built by to_map
    key_phase,       \* "loaded" | "ready" | "resolved" | "aborted"
    mode,            \* Mode handed to event_to_action
    event,           \* Event handed to event_to_action
    outcome          \* what event_to_action did: Returned(Option<Action>) or Panicked

keyVars == <<keymap_config, action_map, key_phase, mode, event, outcome>>

VARIABLES
    current_popup,   \* PopupManager.current_popup: Option<StatisticsPopup>
    pm_call,         \* the last call made on the PopupManager and what it returned
    live_popup       \* history: the popup shown last and not dismissed since, if any

popupVars == <<current_popup, pm_call, live_popup>>

VARIABLES
    rows,            \* TableManager.rows: the torrents last handed over by a poll
    filter,          \* TableManager.filter: Option<String> behind its own mutex
    table_len,       \* GenericTable: the length set by overwrite_len, if any
    selected,        \* GenericTable.state.selected(): Option<usize>
    stats,           \* StatsComponent.stats: Option<SessionStats>, set by stats_fetch
    sent,            \* TorrentActions sent with ctx.send_torrent_action, not yet taken
    lock,            \* owner of each mutex: table_manager (tm), table, filter
    ui_pc,           \* where the render/event loop stands
    torrent_rows,    \* render's local `torrent_rows`
    frame,           \* what render hands to render_stateful_widget
    poll_pc,         \* where each background poll task stands
    completed,       \* history: the poll tasks in the order their replace completed
    tab_call         \* history: the last TorrentsTab::handle_actions call

tabVars ==
    <<rows, filter, table_len, selected, stats, sent, lock, ui_pc, torrent_rows, frame,
      poll_pc, completed, tab_call>>

VARIABLES
    document,        \* the keymap table handed to table_to_keymap: entries per context
    parse_pc,        \* "fetched" | "parsed" | "failed" | "aborted" | "rendered" | "render_aborted"
    parse_result,    \* what table_to_keymap did: Returned(Ok(config) / Err(e)) or Panicked
    legend           \* the binding last rendered with keycode_string and what the call did

parseVars == <<document, parse_pc, parse_result, legend>>
vars == <<keyVars, popupVars, tabVars, parseVars>>

\* Each specification drives one group of variables; the others rest at these values.
KeysParked ==
    /\ keymap_config = [general |-> <<>>, torrents_tab |-> <<>>]
    /\ action_map = EmptyMap
    /\ key_phase = "parked"
    /\ mode = "Normal"
    /\ event = EvRender
    /\ outcome = Returned(None)

PopupParked ==
    /\ current_popup = None
    /\ pm_call = [op |-> "parked"]
    /\ live_popup = None

ParseParked ==
    /\ document = [general |-> <<>>, torrents_tab |-> <<>>]
    /\ parse_pc = "parked"
    /\ parse_result = [pending |-> TRUE]
    /\ legend = [pending |-> TRUE]

TabParked ==
    /\ rows = <<>>
    /\ filter = None
    /\ table_len = None
    /\ selected = None
    /\ stats = None
    /\ sent = <<>>
    /\ lock = [tm |-> "free", table |-> "free", filter |-> "free"]
    /\ ui_pc = "parked"
    /\ torrent_rows = <<>>
    /\ frame = None
    /\ poll_pc = <<>>
    /\ completed = <<>>
    /\ tab_call = [branch |-> "parked"]

\* ------------------------------------------------------------------------
\* Inputs explored by SpecKeys
SeqsUpTo(S, n) == UNION {[1..k -> S] : k \in 0..n}

GeneralPool ==
    {Keybinding(c[1], c[2], a) :
        c \in {<<Char("j"), "None">>, <<Char("q"), "None">>, <<Char("q"), "Ctrl">>},
        a \in {"Quit", "SwitchToSearch"}}
TorrentsPool ==
    {Keybinding(c[1], c[2], a) :
        c \in {<<Char("d"), "None">>, <<Char("j"), "None">>},
        a \in {"DeleteWithoutFiles", "Pause"}}
Configs ==
    [general : SeqsUpTo(GeneralPool, MaxGeneral),
     torrents_tab : SeqsUpTo(TorrentsPool, MaxTorrents)]

EventKeys ==
    {Char("j"), Char("q"), Char("d"), Char("x"), Char("1"), Named("Tab"), Named("Enter")}
EventModifiers == {"NONE", "CONTROL"}
Events ==
    {EvQuit, EvError, EvRender} \cup
    {EvKey(KeyEv(code, m)) : code \in EventKeys, m \in EventModifiers}

\* KeymapConfig::init has produced a configuration; nothing is compiled yet.
KeysInit ==
    /\ keymap_config \in Configs
    /\ action_map = EmptyMap
    /\ key_phase = "loaded"
    /\ mode = "Normal"
    /\ event = EvRender
    /\ outcome = Returned(None)

\* The configuration is compiled once at startup.
ToMap ==
    /\ key_phase = "loaded"
    /\ action_map' = to_map(keymap_config)
    /\ key_phase' = "ready"
    /\ UNCHANGED <<keymap_config, mode, event, outcome, popupVars, tabVars, parseVars>>

\* The event loop resolves one event under the caller's current mode.
Resolve(m, e) ==
    /\ key_phase = "ready"
    /\ mode' = m
    /\ event' = e
    /\ outcome' = event_to_action(m, e)
    /\ key_phase' = IF outcome'.ok THEN "resolved" ELSE "aborted"
    /\ UNCHANGED <<keymap_config, action_map, popupVars, tabVars, parseVars>>

\* The resolved action has been dispatched and the call's locals are gone; the loop
\* waits for the next event.
NextEvent ==
    /\ key_phase = "resolved"
    /\ key_phase' = "ready"
    /\ event' = EvRender
    /\ outcome' = Returned(None)
    /\ UNCHANGED <<keymap_config, action_map, mode, popupVars, tabVars, parseVars>>

KeysNext ==
    \/ ToMap
    \/ \E m \in Mode, e \in Events : Resolve(m, e)
    \/ NextEvent

SpecKeysInit == KeysInit /\ PopupParked /\ TabParked /\ ParseParked
SpecKeys == SpecKeysInit /\ [][KeysNext]_vars

\* ------------------------------------------------------------------------
\* Properties of key resolution and keymap compilation (SpecKeys)

\* The chord of the key event being resolved, as the map is keyed.
EventChord == <<event.key.code, event.key.modifiers>>
ResolvedKeyIn(m) == key_phase = "resolved" /\ mode = m /\ event.ev = "Key"

\* The chord a configuration entry binds.
BindingChord(b) == <<b.on, ModifierToKeyModifiers(b.modifier)>>
BoundAt(list, chord) == {i \in 1..Len(list) : BindingChord(list[i]) = chord}
Last(S) == CHOOSE i \in S : \A j \in S : j <= i
ChordUniverse ==
    {<<code, m>> : code \in EventKeys, m \in {"NONE", "CONTROL", "SHIFT"}}

\* Keys whose resolution the specification fixes independently of the configuration.
FixedFallbackKeys == {Char(c) : c \in DigitChars} \cup {Named("Enter"), Named("Tab")}

\* C5: in NormalMode a key event resolves to the action the compiled map assigns to
\* its chord (so `d` bound to DeleteWithoutFiles yields DeleteWithoutFiles and an
\* overridden `j` yields the override), and plain `j` yields Down when nothing
\* overrides it.
C5_NormalResolvesByCompiledMap ==
    ResolvedKeyIn("Normal") =>
        IF EventChord \in DOMAIN action_map
        THEN outcome = Returned(Some(action_map[EventChord]))
        ELSE EventChord = <<Char("j"), "NONE">> => outcome = Returned(Some(Act("Down")))

\* C6: in NormalMode a key event whose (key, modifier) pair has no binding resolves
\* to no action. Stated on the case the claim singles out, a key that is bound only
\* under another modifier, and leaving aside the keys with a fixed fallback.
C6_MissYieldsNone ==
    (/\ ResolvedKeyIn("Normal")
     /\ EventChord \notin DOMAIN action_map
     /\ event.key.code \notin FixedFallbackKeys
     /\ \E m \in {"NONE", "CONTROL", "SHIFT"} :
            m # event.key.modifiers /\ <<event.key.code, m>> \in DOMAIN action_map)
        => outcome = Returned(None)

\* C7: in InputMode every key event resolves to Action::Input carrying that very
\* key event, never to a navigation or command action.
C7_InputModeForwardsKey ==
    ResolvedKeyIn("Input") => outcome = Returned(Some(Input(event.key)))

\* C7 witness: a bound, hard-wired key (`q`) was resolved in InputMode.
C7_Witness ==
    /\ ResolvedKeyIn("Input")
    /\ event.key = KeyEv(Char("q"), "NONE")
    /\ <<Char("q"), "NONE">> \in DOMAIN action_map
    /\ outcome = Returned(Some(Input(KeyEv(Char("q"), "NONE"))))

\* C8: Event::Quit resolves to Quit and Event::Render to Render in either mode.
C8_SystemEventsIgnoreMode ==
    key_phase = "resolved" =>
        /\ event = EvQuit => outcome = Returned(Some(Act("Quit")))
        /\ event = EvRender => outcome = Returned(Some(Act("Render")))

\* C8 witness: a quit event was resolved while in InputMode.
C8_Witness ==
    /\ key_phase = "resolved"
    /\ mode = "Input"
    /\ event = EvQuit
    /\ outcome = Returned(Some(Act("Quit")))

\* C9: once compiled, the map holds for every chord bound at least once the action
\* of its last binding in merge order (general in list order, then torrents_tab in
\* list order), and holds no chord that is bound nowhere.
C9_LastWriteWins ==
    key_phase \in {"ready", "resolved", "aborted"} =>
        /\ \A chord \in ChordUniverse :
              LET G == BoundAt(keymap_config.general, chord)
                  T == BoundAt(keymap_config.torrents_tab, chord)
              IN  /\ T # {} =>
                        /\ chord \in DOMAIN action_map
                        /\ action_map[chord] =
                              TorrentsToAction(keymap_config.torrents_tab[Last(T)].action)
                  /\ (T = {} /\ G # {}) =>
                        /\ chord \in DOMAIN action_map
                        /\ action_map[chord] =
                              GeneralToAction(keymap_config.general[Last(G)].action)
                  /\ (T = {} /\ G = {}) => chord \notin DOMAIN action_map
        /\ DOMAIN action_map \subseteq ChordUniverse

\* C9 witness: plain `j` is bound twice in general and again in torrents_tab, and
\* the compiled map answers with the torrents_tab action.
C9_Witness ==
    /\ key_phase = "ready"
    /\ Cardinality(BoundAt(keymap_config.general, <<Char("j"), "NONE">>)) >= 2
    /\ keymap_config.general[1].action # keymap_config.general[2].action
    /\ Len(keymap_config.torrents_tab) = 2
    /\ BoundAt(keymap_config.torrents_tab, <<Char("j"), "NONE">>) = {1}
    /\ action_map[<<Char("j"), "NONE">>] = Act("Pause")

\* ------------------------------------------------------------------------
\* SpecPopup: the PopupManager driven through its public interface

MaxStats == 3         \* distinct statistics snapshots (hence popups) explored
Popups == {StatisticsPopup(n) : n \in 1..MaxStats}
TabActions ==
    {Act("Up"), Act("Down"), Act("ShowStats"), Act("Pause"), Act("Quit"),
     Act("Confirm"), Act("Render"), Act("AddMagnet")}

PopupInit ==
    /\ current_popup = PopupManager_new
    /\ pm_call = [op |-> "new"]
    /\ live_popup = None

ShowPopup(popup) ==
    /\ current_popup' = show_popup(current_popup, popup)
    /\ pm_call' = [op |-> "show", popup |-> popup, before |-> current_popup]
    /\ live_popup' = Some(popup)
    /\ UNCHANGED <<keyVars, tabVars, parseVars>>

ClosePopup ==
    /\ current_popup' = close_popup(current_popup)
    /\ pm_call' = [op |-> "close"]
    /\ live_popup' = None
    /\ UNCHANGED <<keyVars, tabVars, parseVars>>

\* handle_actions(action); the shown popup, if any, answers popup_result.
HandleActions(action, popup_result) ==
    LET r == PopupManager_handle_actions(current_popup, popup_result) IN
    /\ current_popup' = r.current_popup
    /\ pm_call' = [op |-> "handle", action |-> action, before |-> current_popup,
                   popup_result |-> IF IsSome(current_popup) THEN popup_result ELSE None,
                   ret |-> r.ret]
    /\ live_popup' = IF IsSome(current_popup) /\ popup_result = Some(Act("Quit"))
                     THEN None ELSE live_popup
    /\ UNCHANGED <<keyVars, tabVars, parseVars>>

PopupNext ==
    \/ \E popup \in Popups : ShowPopup(popup)
    \/ ClosePopup
    \/ \E action \in TabActions, popup_result \in PopupResults :
          HandleActions(action, popup_result)

SpecPopupInit == PopupInit /\ KeysParked /\ TabParked /\ ParseParked
SpecPopup == SpecPopupInit /\ [][PopupNext]_vars

HandledWithPopup == pm_call.op = "handle" /\ IsSome(pm_call.before)

\* C2: when handle_actions runs on a shown popup and the popup answers the close
\* signal, the manager no longer shows a popup and the call returns Action::Render.
C2_CloseSignalDismisses ==
    (HandledWithPopup /\ pm_call.popup_result = Some(Act("Quit")))
        => (~is_showing_popup(current_popup) /\ pm_call.ret = Some(Act("Render")))

C2_Witness ==
    /\ HandledWithPopup
    /\ pm_call.popup_result = Some(Act("Quit"))
    /\ current_popup = None
    /\ pm_call.ret = Some(Act("Render"))

\* C3 as claimed: when the shown popup's answer is not the close signal,
\* handle_actions returns that answer unchanged.
C3_ReturnsPopupResult ==
    (HandledWithPopup /\ pm_call.popup_result # Some(Act("Quit")))
        => pm_call.ret = pm_call.popup_result

\* C3 amended: when the shown popup's answer is not the close signal, handle_actions
\* returns None whatever the popup answered, and the popup stays shown.
C3_NonCloseReturnsNone ==
    (HandledWithPopup /\ pm_call.popup_result # Some(Act("Quit")))
        => (pm_call.ret = None /\ current_popup = pm_call.before)

C3_Witness ==
    /\ HandledWithPopup
    /\ pm_call.popup_result = Some(Act("Render"))
    /\ pm_call.ret = None
    /\ is_showing_popup(current_popup)

\* C4: the manager starts empty, holds at most one popup, shows exactly the popup
\* shown last and not dismissed since (show replaces, never stacks), and
\* is_showing_popup tells whether the slot is occupied.
C4_SingleSlot ==
    /\ current_popup \in {None} \cup {Some(popup) : popup \in Popups}
    /\ current_popup = live_popup
    /\ is_showing_popup(current_popup) <=> current_popup # None
    /\ pm_call.op = "new" => current_popup = None
    /\ pm_call.op = "show" => current_popup = Some(pm_call.popup)

\* C4 witness: a popup was shown over another one and replaced it.
C4_Witness ==
    /\ pm_call.op = "show"
    /\ IsSome(pm_call.before)
    /\ pm_call.before # Some(pm_call.popup)
    /\ current_popup = Some(pm_call.popup)

\* ------------------------------------------------------------------------
\* Spec: the TorrentsTab event loop and the background tasks

DispatchActions == {Act("Up"), Act("Down"), Act("ShowStats"), Act("Pause"), Act("Search")}
NoCall == [action |-> Act("Render"), showing |-> FALSE, branch |-> "none",
           effects |-> {}, ret |-> None]
Acquire(l, who) == [lock EXCEPT ![l] = who]
Release(l) == [lock EXCEPT ![l] = "free"]
otherVars == <<keyVars, pm_call, live_popup, parseVars>>

\* TorrentsTab::new: empty table and rows, no popup, both tasks spawned.
TabInit ==
    /\ rows = <<>>
    /\ filter = None
    /\ table_len = None
    /\ selected = None
    /\ stats = None
    /\ sent = <<>>
    /\ lock = [tm |-> "free", table |-> "free", filter |-> "free"]
    /\ ui_pc = "idle"
    /\ torrent_rows = <<>>
    /\ frame = None
    /\ poll_pc = [p \in Pollers |-> "idle"]
    /\ completed = <<>>
    /\ tab_call = NoCall

\* handle_actions(action): the popup manager gets the action when a popup is shown
\* (popup_result is the popup's answer), otherwise the match picks the handler.
\* The channel to the daemon task is unbounded; the model takes a Pause keypress only
\* while fewer than MaxSent commands wait in it, so that the send itself never waits.
Dispatch(action, popup_result) ==
    LET route == TorrentsTab_route(current_popup, action)
        r == PopupManager_handle_actions(current_popup, popup_result)
        call == [action |-> action, showing |-> is_showing_popup(current_popup),
                 branch |-> route, effects |-> {}, ret |-> None]
    IN
    /\ ui_pc = "idle"
    /\ route = "pause_current_torrent" => Len(sent) < MaxSent
    /\ IF route = "popup_manager"
       THEN /\ current_popup' = r.current_popup
            /\ tab_call' = [call EXCEPT !.ret = r.ret]
            /\ ui_pc' = "idle"
       ELSE /\ current_popup' = current_popup
            /\ tab_call' = call
            /\ ui_pc' = route
    /\ UNCHANGED <<rows, filter, table_len, selected, stats, sent, lock, torrent_rows,
                   frame, poll_pc, completed, otherVars>>

\* previous_torrent / next_torrent / pause_current_torrent: self.table_manager.lock()
HandlerLockTm ==
    /\ ui_pc \in {"previous_torrent", "next_torrent", "pause_current_torrent"}
    /\ lock.tm = "free"
    /\ lock' = Acquire("tm", "ui")
    /\ ui_pc' = CASE ui_pc = "previous_torrent" -> "previous_table"
                  [] ui_pc = "next_torrent" -> "next_table"
                  [] ui_pc = "pause_current_torrent" -> "pause_body"
    /\ UNCHANGED <<rows, filter, table_len, selected, stats, sent, torrent_rows, frame,
                   poll_pc, completed, tab_call, current_popup, otherVars>>

\* previous_torrent: .table.lock().unwrap().previous(); both guards dropped at the `;`
PreviousTorrent ==
    /\ ui_pc = "previous_table"
    /\ lock.table = "free"
    /\ selected' = table_previous(selected, get_len(table_len))
    /\ lock' = Release("tm")
    /\ tab_call' = [tab_call EXCEPT !.effects = @ \cup {"select"}, !.ret = Some(Act("Render"))]
    /\ ui_pc' = "idle"
    /\ UNCHANGED <<rows, filter, table_len, stats, sent, torrent_rows, frame, poll_pc,
                   completed, current_popup, otherVars>>

\* next_torrent: .table.lock().unwrap().next(); both guards dropped at the `;`
NextTorrent ==
    /\ ui_pc = "next_table"
    /\ lock.table = "free"
    /\ selected' = table_next(selected, get_len(table_len))
    /\ lock' = Release("tm")
    /\ tab_call' = [tab_call EXCEPT !.effects = @ \cup {"select"}, !.ret = Some(Act("Render"))]
    /\ ui_pc' = "idle"
    /\ UNCHANGED <<rows, filter, table_len, stats, sent, torrent_rows, frame, poll_pc,
                   completed, current_popup, otherVars>>

\* pause_current_torrent, under the table_manager guard: current_item() and, if there
\* is one, one Start or Stop for its id; returns None and drops the guard.
PauseCurrentTorrent ==
    LET item == current_item(rows, filter, selected) IN
    /\ ui_pc = "pause_body"
    /\ lock.table = "free" /\ lock.filter = "free"
    /\ IF IsSome(item)
       THEN /\ sent' = Append(sent, pause_command(Unwrap(item)))
            /\ tab_call' = [tab_call EXCEPT !.effects = @ \cup {"command"}]
       ELSE UNCHANGED <<sent, tab_call>>
    /\ lock' = Release("tm")
    /\ ui_pc' = "idle"
    /\ UNCHANGED <<rows, filter, table_len, selected, stats, torrent_rows, frame, poll_pc,
                   completed, current_popup, otherVars>>

\* show_statistics_popup: with statistics at hand a popup is shown and Render
\* returned, otherwise None.
ShowStatisticsPopup ==
    /\ ui_pc = "show_statistics_popup"
    /\ IF IsSome(stats)
       THEN /\ current_popup' = show_popup(current_popup, StatisticsPopup(Unwrap(stats)))
            /\ tab_call' = [tab_call EXCEPT !.effects = @ \cup {"show"},
                                            !.ret = Some(Act("Render"))]
       ELSE UNCHANGED <<current_popup, tab_call>>
    /\ ui_pc' = "idle"
    /\ UNCHANGED <<rows, filter, table_len, selected, stats, sent, lock, torrent_rows,
                   frame, poll_pc, completed, otherVars>>

\* self.task.handle_actions(other): the task manager takes the action; a search may
\* replace the filter.
TaskHandleActions(flt) ==
    /\ ui_pc = "task"
    /\ lock.tm = "free" /\ lock.filter = "free"
    /\ filter' = IF tab_call.action = Act("Search") THEN flt ELSE filter
    /\ tab_call' = [tab_call EXCEPT !.effects = @ \cup {"task"}]
    /\ ui_pc' = "idle"
    /\ UNCHANGED <<rows, table_len, selected, stats, sent, lock, torrent_rows, frame,
                   poll_pc, completed, current_popup, otherVars>>

\* render: `let table_manager = &self.table_manager.lock().unwrap();` without the
\* binding that keeps the guard alive: the lock is taken and given back at once.
RenderLockTm_GuardDropped ==
    /\ ui_pc = "idle"
    /\ lock.tm = "free"
    /\ ui_pc' = "render_rows"
    /\ UNCHANGED <<rows, filter, table_len, selected, stats, sent, lock, torrent_rows,
                   frame, poll_pc, completed, tab_call, current_popup, otherVars>>

\* render: `let table_manager = &self.table_manager.lock().unwrap();` the guard lives
\* to the end of render.
RenderLockTm ==
    /\ ui_pc = "idle"
    /\ lock.tm = "free"
    /\ lock' = Acquire("tm", "ui")
    /\ ui_pc' = "render_rows"
    /\ UNCHANGED <<rows, filter, table_len, selected, stats, sent, torrent_rows, frame,
                   poll_pc, completed, tab_call, current_popup, otherVars>>

\* render: torrent_rows collected from table_manager.rows through the filter.
RenderRows ==
    /\ ui_pc = "render_rows"
    /\ lock.filter = "free"
    /\ torrent_rows' = collect_rows(rows, filter, 1)
    /\ ui_pc' = "render_len"
    /\ UNCHANGED <<rows, filter, table_len, selected, stats, sent, lock, frame, poll_pc,
                   completed, tab_call, current_popup, otherVars>>

\* render: table.lock().unwrap().overwrite_len(torrent_rows.len())
RenderOverwriteLen ==
    /\ ui_pc = "render_len"
    /\ lock.table = "free"
    /\ table_len' = overwrite_len(table_len, Len(torrent_rows))
    /\ ui_pc' = "render_draw"
    /\ UNCHANGED <<rows, filter, selected, stats, sent, lock, torrent_rows, frame,
                   poll_pc, completed, tab_call, current_popup, otherVars>>

\* render: f.render_stateful_widget(table, rect, &mut table.lock().unwrap().state)
RenderDraw ==
    /\ ui_pc = "render_draw"
    /\ lock.table = "free"
    /\ frame' = Some([rows |-> torrent_rows, len |-> get_len(table_len),
                      selected |-> selected])
    /\ ui_pc' = "render_return"
    /\ UNCHANGED <<rows, filter, table_len, selected, stats, sent, lock, torrent_rows,
                   poll_pc, completed, tab_call, current_popup, otherVars>>

\* Variant: render returns with the table_manager guard still held.
RenderReturn_KeepsGuard ==
    /\ ui_pc = "render_return"
    /\ torrent_rows' = <<>>
    /\ frame' = None
    /\ ui_pc' = "idle"
    /\ UNCHANGED <<rows, filter, table_len, selected, stats, sent, lock, poll_pc, completed,
                   tab_call, current_popup, otherVars>>

\* render returns: its locals and the table_manager guard are dropped.
RenderReturn ==
    /\ ui_pc = "render_return"
    /\ lock' = Release("tm")
    /\ torrent_rows' = <<>>
    /\ frame' = None
    /\ ui_pc' = "idle"
    /\ UNCHANGED <<rows, filter, table_len, selected, stats, sent, poll_pc, completed,
                   tab_call, current_popup, otherVars>>

\* torrent_fetch: the poll task takes the table_manager guard for its replace.
PollLock(p) ==
    /\ poll_pc[p] = "idle"
    /\ lock.tm = "free"
    /\ lock' = Acquire("tm", p)
    /\ poll_pc' = [poll_pc EXCEPT ![p] = "locked"]
    /\ UNCHANGED <<rows, filter, table_len, selected, stats, sent, ui_pc, torrent_rows,
                   frame, completed, tab_call, current_popup, otherVars>>

\* torrent_fetch: replace(entities) swaps the whole sequence, clamps the cursor to the
\* new length and gives the guard back.
PollReplace(p) ==
    /\ poll_pc[p] = "locked"
    /\ lock.table = "free"
    /\ rows' = PollRows(p)
    /\ selected' = clamp_cursor(selected, Len(PollRows(p)))
    /\ lock' = Release("tm")
    /\ poll_pc' = [poll_pc EXCEPT ![p] = "done"]
    /\ completed' = Append(completed, p)
    /\ UNCHANGED <<filter, table_len, stats, sent, ui_pc, torrent_rows, frame, tab_call,
                   current_popup, otherVars>>

\* stats_fetch: the statistics task stores what it fetched.
StatsFetch ==
    /\ stats = None
    /\ stats' = Some(1)
    /\ UNCHANGED <<rows, filter, table_len, selected, sent, lock, ui_pc, torrent_rows,
                   frame, poll_pc, completed, tab_call, current_popup, otherVars>>

\* The daemon task takes the next command off the channel.
TakeCommand ==
    /\ sent # <<>>
    /\ sent' = Tail(sent)
    /\ UNCHANGED <<rows, filter, table_len, selected, stats, lock, ui_pc, torrent_rows,
                   frame, poll_pc, completed, tab_call, current_popup, otherVars>>

Next ==
    \/ \E action \in DispatchActions, popup_result \in PopupResults :
          Dispatch(action, popup_result)
    \/ HandlerLockTm
    \/ PreviousTorrent
    \/ NextTorrent
    \/ PauseCurrentTorrent
    \/ ShowStatisticsPopup
    \/ \E flt \in Filters : TaskHandleActions(flt)
    \/ RenderLockTm
    \/ RenderRows
    \/ RenderOverwriteLen
    \/ RenderDraw
    \/ RenderReturn
    \/ \E p \in Pollers : PollLock(p)
    \/ \E p \in Pollers : PollReplace(p)
    \/ StatsFetch
    \/ TakeCommand

Init == TabInit /\ KeysParked /\ current_popup = None /\ pm_call = [op |-> "parked"]
        /\ live_popup = None /\ ParseParked
Spec == Init /\ [][Next]_vars

\* ------------------------------------------------------------------------
\* Properties of the torrents tab (Spec)

HandlerPcs ==
    {"previous_torrent", "previous_table", "next_torrent", "next_table",
     "pause_current_torrent", "pause_body", "show_statistics_popup", "task"}

\* C1: an action handled while a popup is shown goes to the popup manager only: for
\* that action no selection move, no Start/Stop command, no statistics popup and no
\* task-manager handling is performed, and no handler of the view is running while
\* a popup is shown.
C1_PopupSwallowsAction ==
    /\ tab_call.showing => (tab_call.branch = "popup_manager" /\ tab_call.effects = {})
    /\ is_showing_popup(current_popup) => ui_pc \notin HandlerPcs

\* C1 witness: Pause arrived while a popup was shown over a table with a current
\* torrent; only the popup manager saw it.
C1_Witness ==
    /\ tab_call.showing
    /\ tab_call.action = Act("Pause")
    /\ tab_call.branch = "popup_manager"
    /\ is_showing_popup(current_popup)
    /\ IsSome(current_item(rows, filter, selected))
    /\ sent = <<>>
    /\ ui_pc = "idle"

\* C10: the table holds exactly the sequence of the replace that completed last
\* (never a partial or mixed one), and what render draws is the table as it stands:
\* the drawn rows are the current sequence seen through the filter and the length
\* stored with overwrite_len is their number, so no replace slips in between
\* render's read of the rows and its use of the length and selection.
C10_LastReplaceWinsWhole ==
    /\ rows = IF completed = <<>> THEN <<>> ELSE PollRows(completed[Len(completed)])
    /\ ui_pc = "render_return" =>
          /\ IsSome(frame)
          /\ Unwrap(frame).rows = collect_rows(rows, filter, 1)
          /\ Unwrap(frame).len = Len(Unwrap(frame).rows)
          /\ Unwrap(frame).selected = selected
          /\ table_len = Some(Len(Unwrap(frame).rows))

\* C10 witness: both replaces completed, the shorter one last, and render has drawn
\* a frame from it.
C10_Witness ==
    /\ completed = <<"poll1", "poll2">>
    /\ Len(rows) = LenB
    /\ ui_pc = "render_return"
    /\ IsSome(frame)
    /\ Len(Unwrap(frame).rows) = LenB

\* The steps of an operation the event loop has started, and of a poll task.
UiStep ==
    \/ HandlerLockTm
    \/ PreviousTorrent
    \/ NextTorrent
    \/ PauseCurrentTorrent
    \/ ShowStatisticsPopup
    \/ \E flt \in Filters : TaskHandleActions(flt)
    \/ RenderRows
    \/ RenderOverwriteLen
    \/ RenderDraw
    \/ RenderReturn
Holds(who) == {l \in DOMAIN lock : lock[l] = who}

\* C11: no operation waits forever on a guard. A thread between operations holds no
\* guard (every guard is released on return); an operation that cannot take its next
\* step is waiting for a guard held by a poll task that can itself step (so the event
\* loop never waits for a guard it holds, and no wait is cyclic); a poll task that
\* holds the table_manager guard can always complete its replace; and a poll task
\* waiting for the table_manager guard waits for a holder that can step.
C11_NoGuardWaitsForever ==
    /\ ui_pc = "idle" => Holds("ui") = {}
    /\ \A p \in Pollers : poll_pc[p] \in {"idle", "done"} => Holds(p) = {}
    /\ (ui_pc # "idle" /\ ~ENABLED UiStep) =>
          \E p \in Pollers : Holds(p) # {} /\ ENABLED PollReplace(p)
    /\ \A p \in Pollers : poll_pc[p] = "locked" => ENABLED PollReplace(p)
    /\ \A p \in Pollers : (poll_pc[p] = "idle" /\ ~ENABLED PollLock(p)) =>
          \/ lock.tm = "ui" /\ ENABLED UiStep
          \/ \E q \in Pollers : lock.tm = q /\ ENABLED PollReplace(q)

\* C11 witness: a poll task holds the table_manager guard while pause_current_torrent
\* and the other poll task both wait for it.
C11_Witness ==
    /\ ui_pc = "pause_current_torrent"
    /\ lock.tm = "poll1"
    /\ poll_pc["poll2"] = "idle"
    /\ ~ENABLED UiStep
    /\ ~ENABLED PollLock("poll2")

\* The rows the table lists now: the current sequence through the active filter.
ListedRows == collect_rows(rows, filter, 1)

C13_PauseSendsOneCommand ==
    [][LET item == current_item(rows, filter, selected) IN
       /\ (ui_pc = "pause_body" /\ ui_pc' = "idle") =>
             IF IsSome(item)
             THEN sent' = Append(sent,
                      [kind |-> IF Unwrap(item).status = "Stopped" THEN "Start" ELSE "Stop",
                       ids |-> <<Unwrap(item).id>>])
             ELSE sent' = sent
       /\ Len(sent') > Len(sent) =>
             (ui_pc = "pause_body" /\ tab_call.action = Act("Pause") /\ ~tab_call.showing)
      ]_vars

\* C13 witness: Pause on a stopped torrent has sent Start for it.
C13_Witness ==
    /\ ui_pc = "idle"
    /\ tab_call.action = Act("Pause")
    /\ "command" \in tab_call.effects
    /\ Len(sent) = 1
    /\ sent[1].kind = "Start"
    /\ \E i \in 1..Len(rows) : rows[i].status = "Stopped" /\ sent[1].ids = <<rows[i].id>>

\* ------------------------------------------------------------------------
\* SpecFixed: key resolution under configurations that rebind the fixed keys

AsciiDigits == {"0", "1", "2", "3", "4", "5", "6", "7", "8", "9"}
DigitValue(c) ==
    CASE c = "0" -> 0 [] c = "1" -> 1 [] c = "2" -> 2 [] c = "3" -> 3 [] c = "4" -> 4
      [] c = "5" -> 5 [] c = "6" -> 6 [] c = "7" -> 7 [] c = "8" -> 8 [] c = "9" -> 9

FixedPool ==
    {Keybinding(Char("1"), "None", "Quit"), Keybinding(Char("0"), "None", "SwitchToSearch"),
     Keybinding(Named("Enter"), "None", "Quit"), Keybinding(Named("Tab"), "None", "Search")}
FixedConfigs ==
    [general : SeqsUpTo(FixedPool, MaxGeneral), torrents_tab : {<<>>}]
FixedEventKeys ==
    {Char(c) : c \in AsciiDigits} \cup {Named("Enter"), Named("Tab"), Char("x")}
FixedEvents ==
    {EvKey(KeyEv(code, m)) : code \in FixedEventKeys, m \in EventModifiers}

FixedInit ==
    /\ keymap_config \in FixedConfigs
    /\ action_map = EmptyMap
    /\ key_phase = "loaded"
    /\ mode = "Normal"
    /\ event = EvRender
    /\ outcome = Returned(None)

FixedNext ==
    \/ ToMap
    \/ \E m \in Mode, e \in FixedEvents : Resolve(m, e)
    \/ NextEvent

SpecFixedInit == FixedInit /\ PopupParked /\ TabParked /\ ParseParked
SpecFixed == SpecFixedInit /\ [][FixedNext]_vars

EnterAndTabFixed ==
    /\ event.key.code = Named("Enter") => outcome = Returned(Some(Act("Confirm")))
    /\ event.key.code = Named("Tab") => outcome = Returned(Some(Act("ChangeFocus")))

\* C18 as stated: in NormalMode every digit key resolves to ChangeTab of that digit,
\* Enter to Confirm and Tab to ChangeFocus, whatever the configuration binds.
C18_EveryDigitSwitchesTab ==
    ResolvedKeyIn("Normal") =>
        /\ (event.key.code.kind = "Char" /\ event.key.code.c \in AsciiDigits) =>
              outcome = Returned(Some(ChangeTab(DigitValue(event.key.code.c))))
        /\ EnterAndTabFixed

\* C18 amended: in NormalMode the digit keys 1 to 9 resolve to ChangeTab of that digit,
\* the digit key 0 resolves to no action, Enter resolves to Confirm and Tab to
\* ChangeFocus, whatever the configuration binds.
C18_NonZeroDigitSwitchesTab ==
    ResolvedKeyIn("Normal") =>
        /\ (event.key.code.kind = "Char" /\ event.key.code.c \in AsciiDigits \ {"0"}) =>
              outcome = Returned(Some(ChangeTab(DigitValue(event.key.code.c))))
        /\ event.key.code = Char("0") => outcome = Returned(None)
        /\ EnterAndTabFixed

\* C18 witness: Enter is bound to Quit by the configuration and resolved to Confirm.
C18_Witness ==
    /\ ResolvedKeyIn("Normal")
    /\ event.key = KeyEv(Named("Enter"), "NONE")
    /\ <<Named("Enter"), "NONE">> \in DOMAIN action_map
    /\ action_map[<<Named("Enter"), "NONE">>] = Act("Quit")
    /\ outcome = Returned(Some(Act("Confirm")))

\* C19: event_to_action returns normally (with Some action or None) for every mode
\* and every event, Quit, Error, Render and Key alike; the event loop never aborts.
C19_ResolutionIsTotal == outcome.ok /\ key_phase # "aborted"

\* ------------------------------------------------------------------------
\* Deserialisation of keybinding entries (impl Deserialize for Keybinding) and the
\* display string of a chord (Keybinding::keycode_string)

\* A TOML string value is modelled as the sequence of its characters; Join gives the
\* string itself.
RECURSIVE Join(_)
Join(s) == IF s = <<>> THEN "" ELSE Head(s) \o Join(Tail(s))

LowerLetters ==
    <<"a", "b", "c", "d", "e", "f", "g", "h", "i", "j", "k", "l", "m",
      "n", "o", "p", "q", "r", "s", "t", "u", "v", "w", "x", "y", "z">>
UpperLetters ==
    <<"A", "B", "C", "D", "E", "F", "G", "H", "I", "J", "K", "L", "M",
      "N", "O", "P", "Q", "R", "S", "T", "U", "V", "W", "X", "Y", "Z">>
DecDigits == <<"0", "1", "2", "3", "4", "5", "6", "7", "8", "9">>
InSeq(seq, c) == \E i \in 1..Len(seq) : seq[i] = c
IndexOf(seq, c) == CHOOSE i \in 1..Len(seq) : seq[i] = c

\* char::len_utf8: the characters of the model are ASCII except for the two-byte é.
len_utf8(c) == IF c = "é" THEN 2 ELSE 1

\* str::len: the length in bytes.
RECURSIVE str_len(_)
str_len(s) == IF s = <<>> THEN 0 ELSE len_utf8(Head(s)) + str_len(Tail(s))

\* str::to_lowercase
char_to_lowercase(c) ==
    IF InSeq(UpperLetters, c) THEN LowerLetters[IndexOf(UpperLetters, c)] ELSE c
to_lowercase(s) == [i \in 1..Len(s) |-> char_to_lowercase(s[i])]

\* str::starts_with(char)
starts_with(s, c) == s # <<>> /\ Head(s) = c

\* Result<T, E>
Ok(v) == [is_ok |-> TRUE, v |-> v]
Err(e) == [is_ok |-> FALSE, e |-> e]

\* u8::MAX
U8Max == 255

\* <u8 as FromStr>::from_str: an optional `+`, then at least one decimal digit, the
\* value within u8.
RECURSIVE digits_value(_, _)
digits_value(s, acc) ==
    IF s = <<>> THEN acc
    ELSE digits_value(Tail(s), acc * 10 + (IndexOf(DecDigits, Head(s)) - 1))
parse_u8(src) ==
    LET digits == IF starts_with(src, "+") THEN Tail(src) ELSE src IN
    IF src = <<>> THEN Err("Empty")
    ELSE IF digits = <<>> \/ \E i \in 1..Len(digits) : ~InSeq(DecDigits, digits[i])
    THEN Err("InvalidDigit")
    ELSE IF digits_value(digits, 0) > U8Max THEN Err("PosOverflow")
    ELSE Ok(digits_value(digits, 0))

\* serde::de::Error constructors
invalid_value(unexp, exp) == [kind |-> "invalid_value", unexpected |-> unexp, expected |-> exp]
duplicate_field(field) == [kind |-> "duplicate_field", field |-> field]
missing_field(field) == [kind |-> "missing_field", field |-> field]
unknown_field(field) == [kind |-> "unknown_field", field |-> field]
unknown_variant(variant) == [kind |-> "unknown_variant", variant |-> variant]

\* The match on the lowercased token (the thirteen named keys).
named_key(lower) ==
    CASE lower = "enter" -> Some(Named("Enter"))
      [] lower = "esc" -> Some(Named("Esc"))
      [] lower = "up" -> Some(Named("Up"))
      [] lower = "down" -> Some(Named("Down"))
      [] lower = "left" -> Some(Named("Left"))
      [] lower = "right" -> Some(Named("Right"))
      [] lower = "home" -> Some(Named("Home"))
      [] lower = "end" -> Some(Named("End"))
      [] lower = "pageup" -> Some(Named("PageUp"))
      [] lower = "pagedown" -> Some(Named("PageDown"))
      [] lower = "tab" -> Some(Named("Tab"))
      [] lower = "backspace" -> Some(Named("Backspace"))
      [] lower = "delete" -> Some(Named("Delete"))
      [] OTHER -> None

\* Variant: the named tokens matched without lowercasing.
parse_on_CaseSensitive(key) ==
    IF str_len(key) = 1 THEN Ok(Char(Head(key)))
    ELSE IF starts_with(key, "F") /\ (str_len(key) = 2 \/ str_len(key) = 3)
    THEN LET which_f == parse_u8(Tail(key)) IN
         IF which_f.is_ok THEN Ok(FKey(which_f.v))
         ELSE Err(invalid_value(Join(key), "something_correct"))
    ELSE LET on == named_key(Join(key)) IN
         IF IsSome(on) THEN Ok(Unwrap(on))
         ELSE Err(invalid_value(Join(key), "something correct"))

\* Field::On: the `on` token to a KeyCode.
parse_on(key) ==
    IF str_len(key) = 1 THEN Ok(Char(Head(key)))
    ELSE IF starts_with(key, "F") /\ (str_len(key) = 2 \/ str_len(key) = 3)
    THEN LET which_f == parse_u8(Tail(key)) IN
         IF which_f.is_ok THEN Ok(FKey(which_f.v))
         ELSE Err(invalid_value(Join(key), "something_correct"))
    ELSE LET on == named_key(Join(to_lowercase(key))) IN
         IF IsSome(on) THEN Ok(Unwrap(on))
         ELSE Err(invalid_value(Join(key), "something correct"))

\* impl Deserialize for KeyModifier / GeneralAction / TorrentsAction (derived): the
\* value must be the name of a variant.
deserialize_variant(variants, name) ==
    IF name \in variants THEN Ok(name) ELSE Err(unknown_variant(name))

\* Keybinding::new: an absent modifier becomes KeyModifier::None.
Keybinding_new_DefaultCtrl(on, action, modifier) ==
    Keybinding(on, IF IsSome(modifier) THEN Unwrap(modifier) ELSE "Ctrl", action)
Keybinding_new(on, action, modifier) ==
    Keybinding(on, IF IsSome(modifier) THEN Unwrap(modifier) ELSE "None", action)

\* One key-value pair of an entry of the document: `on` carries a token, `modifier`
\* and `action` carry a name.
Pair(field, token, name) == [field |-> field, token |-> token, name |-> name]
OnPair(token) == Pair("on", token, "")
ModifierPair(name) == Pair("modifier", <<>>, name)
ActionPair(name) == Pair("action", <<>>, name)

\* visit_map after the loop: the missing-field tests, the action's own result, the
\* unwrap of the modifier's result, and Keybinding::new.
visit_finish(on, modifier, action) ==
    IF ~IsSome(on) THEN Returned(Err(missing_field("on")))
    ELSE IF ~IsSome(action) THEN Returned(Err(missing_field("action")))
    ELSE IF ~Unwrap(action).is_ok THEN Returned(Err(Unwrap(action).e))
    ELSE IF IsSome(modifier) /\ ~Unwrap(modifier).is_ok THEN Panicked
    ELSE Returned(Ok(Keybinding_new(Unwrap(on), Unwrap(action).v,
                        IF IsSome(modifier) THEN Some(Unwrap(modifier).v) ELSE None)))

\* visit_map: `while let Some(key) = map.next_key()?`, from pair i on, with the
\* locals on, modifier and action; catalog is the action enum T of the context.
RECURSIVE visit_map_from(_, _, _, _, _, _)
visit_map_from(catalog, map, i, on, modifier, action) ==
    IF i > Len(map) THEN visit_finish(on, modifier, action)
    ELSE LET pair == map[i] IN
         CASE pair.field = "on" ->
                IF IsSome(on) THEN Returned(Err(duplicate_field("on")))
                ELSE LET code == parse_on(pair.token) IN
                     IF code.is_ok
                     THEN visit_map_from(catalog, map, i + 1, Some(code.v), modifier, action)
                     ELSE Returned(Err(code.e))
           [] pair.field = "modifier" ->
                IF IsSome(modifier) THEN Returned(Err(duplicate_field("modifier")))
                ELSE visit_map_from(catalog, map, i + 1, on,
                                    Some(deserialize_variant(KeyModifier, pair.name)), action)
           [] pair.field = "action" ->
                IF IsSome(action) THEN Returned(Err(duplicate_field("action")))
                ELSE visit_map_from(catalog, map, i + 1, on, modifier,
                                    Some(deserialize_variant(catalog, pair.name)))
           [] OTHER -> Returned(Err(unknown_field(pair.field)))
visit_map(catalog, map) == visit_map_from(catalog, map, 1, None, None, None)

\* Deserialisation of the `keybindings` array of one context: the entries in order,
\* ending at the first that fails.
RECURSIVE deserialize_keybindings(_, _, _, _)
deserialize_keybindings(catalog, entries, i, acc) ==
    IF i > Len(entries) THEN Returned(Ok(acc))
    ELSE LET r == visit_map(catalog, entries[i]) IN
         IF ~r.ok THEN Panicked
         ELSE IF ~r.value.is_ok THEN Returned(Err(r.value.e))
         ELSE deserialize_keybindings(catalog, entries, i + 1, Append(acc, r.value.v))

\* KeymapConfig::table_to_keymap: toml::from_str(..)? over both contexts.
table_to_keymap(table) ==
    LET general == deserialize_keybindings(GeneralAction, table.general, 1, <<>>) IN
    IF ~general.ok THEN Panicked
    ELSE IF ~general.value.is_ok THEN general
    ELSE LET torrents_tab ==
                 deserialize_keybindings(TorrentsAction, table.torrents_tab, 1, <<>>) IN
         IF ~torrents_tab.ok THEN Panicked
         ELSE IF ~torrents_tab.value.is_ok THEN torrents_tab
         ELSE Returned(Ok([general |-> general.value.v,
                           torrents_tab |-> torrents_tab.value.v]))

\* KeyModifier::to_str / KeyModifier::is_none
to_str(modifier) ==
    CASE modifier = "None" -> "" [] modifier = "Ctrl" -> "CTRL" [] modifier = "Shift" -> "SHIFT"
is_none(modifier) == modifier = "None"

\* format!("{i}") of a u8
RECURSIVE Decimal(_)
Decimal(n) ==
    IF n < 10 THEN DecDigits[n + 1] ELSE Decimal(n \div 10) \o DecDigits[(n % 10) + 1]

\* The match on self.on of keycode_string; the arrows are the glyphs U+F060..U+F063.
key_string(on) ==
    CASE on.kind = "Backspace" -> Returned("Backspace")
      [] on.kind = "Enter" -> Returned("Enter")
      [] on.kind = "Left" -> Returned("U+F060")
      [] on.kind = "Right" -> Returned("U+F061")
      [] on.kind = "Up" -> Returned("U+F062")
      [] on.kind = "Down" -> Returned("U+F063")
      [] on.kind = "Home" -> Returned("Home")
      [] on.kind = "End" -> Returned("End")
      [] on.kind = "PageUp" -> Returned("PageUp")
      [] on.kind = "PageDown" -> Returned("PageDown")
      [] on.kind = "Tab" -> Returned("Tab")
      [] on.kind = "BackTab" -> Panicked
      [] on.kind = "Delete" -> Panicked
      [] on.kind = "Insert" -> Returned("Insert")
      [] on.kind = "F" -> Returned("F" \o Decimal(on.i))
      [] on.kind = "Char" -> Returned(on.c)
      [] on.kind = "Esc" -> Returned("Esc")
      [] OTHER -> Panicked

\* Variant: the modifier prefix written whether or not there is a modifier.
keycode_string_AlwaysPrefixed(keybinding) ==
    LET key == key_string(keybinding.on) IN
    IF ~key.ok THEN Panicked
    ELSE Returned(to_str(keybinding.modifier) \o "-" \o key.value)

\* Keybinding::keycode_string
keycode_string(keybinding) ==
    LET key == key_string(keybinding.on) IN
    IF ~key.ok THEN Panicked
    ELSE IF ~is_none(keybinding.modifier)
    THEN Returned(to_str(keybinding.modifier) \o "-" \o key.value)
    ELSE Returned(key.value)

\* ------------------------------------------------------------------------
\* SpecParse: a keymap table is deserialised with table_to_keymap and the bindings of
\* the resulting configuration are rendered with keycode_string

MaxSuffix == 2        \* most characters after the `F` of the function-key tokens explored
MaxPairs == 3         \* most key-value pairs in the entries explored field by field
MaxEntries == 2       \* longest `general.keybindings` array explored entry by entry

\* The thirteen named tokens of the document format and the keys they name.
NamedTokens ==
    {[token |-> <<"e", "n", "t", "e", "r">>, key |-> Named("Enter")],
     [token |-> <<"e", "s", "c">>, key |-> Named("Esc")],
     [token |-> <<"u", "p">>, key |-> Named("Up")],
     [token |-> <<"d", "o", "w", "n">>, key |-> Named("Down")],
     [token |-> <<"l", "e", "f", "t">>, key |-> Named("Left")],
     [token |-> <<"r", "i", "g", "h", "t">>, key |-> Named("Right")],
     [token |-> <<"h", "o", "m", "e">>, key |-> Named("Home")],
     [token |-> <<"e", "n", "d">>, key |-> Named("End")],
     [token |-> <<"p", "a", "g", "e", "u", "p">>, key |-> Named("PageUp")],
     [token |-> <<"p", "a", "g", "e", "d", "o", "w", "n">>, key |-> Named("PageDown")],
     [token |-> <<"t", "a", "b">>, key |-> Named("Tab")],
     [token |-> <<"b", "a", "c", "k", "s", "p", "a", "c", "e">>, key |-> Named("Backspace")],
     [token |-> <<"d", "e", "l", "e", "t", "e">>, key |-> Named("Delete")]}
char_to_uppercase(c) ==
    IF InSeq(LowerLetters, c) THEN UpperLetters[IndexOf(LowerLetters, c)] ELSE c
RECURSIVE Casings(_)
Casings(s) ==
    IF s = <<>> THEN {<<>>}
    ELSE {<<c>> \o rest : c \in {Head(s), char_to_uppercase(Head(s))}, rest \in Casings(Tail(s))}

SingleCharTokens == {<<c>> : c \in {"a", "D", "F", "1", "+", "-", " ", "é"}}
SuffixChars == {DecDigits[i] : i \in 1..Len(DecDigits)} \cup {"+", "x", "é"}
FTokens == {<<"F">> \o suffix : suffix \in UNION {[1..k -> SuffixChars] : k \in 1..MaxSuffix}}
CasedNamedTokens == UNION {Casings(nt.token) : nt \in NamedTokens}
OtherTokens ==
    {<<>>, <<"s", "p", "a", "c", "e">>, <<"f", "5">>, <<"e", "n", "t", "e">>,
     <<"d", "e", "l", "e", "t", "e", "e">>, <<"i", "n", "s", "e", "r", "t">>,
     <<"a", "b">>, <<"é", "é">>}
Tokens == SingleCharTokens \cup FTokens \cup CasedNamedTokens \cup OtherTokens

\* An entry written the usual way: `on`, an optional `modifier`, `action`.
ModifierChoices == {<<>>} \cup {<<ModifierPair(m)>> : m \in KeyModifier}
TokenEntry(token, modifier, action) == <<OnPair(token)>> \o modifier \o <<ActionPair(action)>>
TokenTables ==
    {[general |-> <<TokenEntry(t, m, "Quit")>>, torrents_tab |-> <<>>] :
        t \in Tokens, m \in ModifierChoices}

\* Entries put together pair by pair: any order, any field missing or repeated.
GoodPairs == {OnPair(<<"a">>), ModifierPair("Ctrl"), ActionPair("Quit")}
PairPool ==
    GoodPairs \cup {OnPair(<<"j">>), OnPair(<<"x", "x">>), ModifierPair("Hyper"),
                    ActionPair("Pause")}
PairEntries == SeqsUpTo(PairPool, MaxPairs)
PairTables ==
    {[general |-> <<e>>, torrents_tab |-> <<>>] : e \in PairEntries}
    \cup {[general |-> <<>>, torrents_tab |-> <<e>>] : e \in PairEntries}

\* Tables of several entries, sound and unsound ones mixed.
EntryPool ==
    {TokenEntry(<<"a">>, <<>>, "Quit"), TokenEntry(<<"F", "5">>, <<ModifierPair("Shift")>>, "Up"),
     <<OnPair(<<"q">>)>>, TokenEntry(<<"F", "x">>, <<>>, "Quit")}
EntryTables ==
    [general : SeqsUpTo(EntryPool, MaxEntries),
     torrents_tab : {<<>>, <<TokenEntry(<<"p">>, <<>>, "Pause")>>}]

\* utils::fetch_config has read the keymap file into a table.
ParseInit ==
    /\ document \in TokenTables \cup PairTables \cup EntryTables
    /\ parse_pc = "fetched"
    /\ parse_result = [pending |-> TRUE]
    /\ legend = [pending |-> TRUE]

\* KeymapConfig::init hands the table to table_to_keymap.
TableToKeymap ==
    /\ parse_pc = "fetched"
    /\ parse_result' = table_to_keymap(document)
    /\ parse_pc' = IF ~parse_result'.ok THEN "aborted"
                   ELSE IF parse_result'.value.is_ok THEN "parsed" ELSE "failed"
    /\ UNCHANGED <<document, legend, keyVars, popupVars, tabVars>>

\* The help legend asks one binding of the configuration for its display string.
HelpKeycodeString(context, i) ==
    /\ parse_pc = "parsed"
    /\ i \in 1..Len(parse_result.value.v[context])
    /\ LET keybinding == parse_result.value.v[context][i] IN
       legend' = [keybinding |-> keybinding, display |-> keycode_string(keybinding)]
    /\ parse_pc' = IF legend'.display.ok THEN "rendered" ELSE "render_aborted"
    /\ UNCHANGED <<document, parse_result, keyVars, popupVars, tabVars>>

ParseNext ==
    \/ TableToKeymap
    \/ \E context \in {"general", "torrents_tab"}, i \in 1..MaxEntries :
           HelpKeycodeString(context, i)

SpecParseInit == ParseInit /\ KeysParked /\ PopupParked /\ TabParked
SpecParse == SpecParseInit /\ [][ParseNext]_vars

\* ------------------------------------------------------------------------
\* Properties of deserialisation and of the display string (SpecParse)

Deserialised == parse_pc \in {"parsed", "failed", "aborted", "rendered", "render_aborted"}
Accepted == parse_pc \in {"parsed", "rendered", "render_aborted"}
Rejected(e) == parse_pc = "failed" /\ parse_result = Returned(Err(e))

\* A table of one entry, that entry, its context and the context's action catalog.
OneEntry == Deserialised /\ Len(document.general) + Len(document.torrents_tab) = 1
TheContext == IF Len(document.general) = 1 THEN "general" ELSE "torrents_tab"
TheEntry == document[TheContext][1]
CatalogOf(context) == IF context = "general" THEN GeneralAction ELSE TorrentsAction
ParsedBinding == parse_result.value.v[TheContext][1]

\* The entry is written `on`, optional modifier, `action`, with both of the latter sound.
TokenShaped ==
    /\ OneEntry
    /\ TheContext = "general"
    /\ Len(TheEntry) \in {2, 3}
    /\ TheEntry[1].field = "on"
    /\ TheEntry[Len(TheEntry)] = ActionPair("Quit")
    /\ Len(TheEntry) = 3 => (TheEntry[2].field = "modifier" /\ TheEntry[2].name \in KeyModifier)
OnToken == TheEntry[1].token

\* The two errors of the `on` token, as the code raises them.
InvalidKeySpec(token) == invalid_value(Join(token), "something_correct")
UnknownKeyToken(token) == invalid_value(Join(token), "something correct")

IsDigit(c) == InSeq(DecDigits, c)
DecimalChars(n) ==
    IF n < 10 THEN <<DecDigits[n + 1]>>
    ELSE <<DecDigits[(n \div 10) + 1], DecDigits[(n % 10) + 1]>>
\* `F` followed by one or two characters.
IsFForm(token) == Len(token) \in {2, 3} /\ token[1] = "F"
SameLetters(token, name) ==
    /\ Len(token) = Len(name)
    /\ \A i \in 1..Len(name) : token[i] \in {name[i], char_to_uppercase(name[i])}

\* C14: every token F<n> with n in 1..99 is accepted as the function key n, and every
\* token made of `F` and one or two characters that are not all decimal digits is
\* rejected with InvalidKeySpec.
C14_FunctionKeyTokens ==
    TokenShaped =>
        /\ \A n \in 1..99 :
              OnToken = <<"F">> \o DecimalChars(n) =>
                  (Accepted /\ ParsedBinding.on = FKey(n))
        /\ (IsFForm(OnToken) /\ \E i \in 2..Len(OnToken) : ~IsDigit(OnToken[i])) =>
              Rejected(InvalidKeySpec(OnToken))

\* C15: each of the thirteen named tokens, in any letter case, is accepted as the key
\* it names; every other token of several characters that is not `F` plus one or two
\* characters is rejected with UnknownKeyToken, which is not the InvalidKeySpec error
\* of that token.
C15_NamedTokensAnyCase ==
    TokenShaped =>
        /\ \A nt \in NamedTokens :
              SameLetters(OnToken, nt.token) => (Accepted /\ ParsedBinding.on = nt.key)
        /\ (/\ Len(OnToken) > 1
            /\ ~IsFForm(OnToken)
            /\ \A nt \in NamedTokens : ~SameLetters(OnToken, nt.token)) =>
              /\ Rejected(UnknownKeyToken(OnToken))
              /\ UnknownKeyToken(OnToken) # InvalidKeySpec(OnToken)

\* C15 witness: `PageUp` in mixed case was accepted as the PageUp key.
C15_Witness ==
    /\ TokenShaped
    /\ OnToken = <<"P", "a", "g", "e", "U", "p">>
    /\ parse_pc = "parsed"
    /\ ParsedBinding.on = Named("PageUp")

Count(entry, field) == Cardinality({i \in 1..Len(entry) : entry[i].field = field})
FieldNames == {"on", "modifier", "action"}
\* Every value of the entry is sound for its field.
SoundValues(entry, context) ==
    \A i \in 1..Len(entry) :
        CASE entry[i].field = "on" -> entry[i].token \in {<<"a">>, <<"j">>}
          [] entry[i].field = "modifier" -> entry[i].name \in KeyModifier
          [] entry[i].field = "action" -> entry[i].name \in CatalogOf(context)
\* The entries of the table in the order they are deserialised, with their catalogs.
EntriesInOrder ==
    [i \in 1..Len(document.general) |-> [catalog |-> GeneralAction, map |-> document.general[i]]]
    \o [i \in 1..Len(document.torrents_tab) |->
           [catalog |-> TorrentsAction, map |-> document.torrents_tab[i]]]
EntryResult(e) == visit_map(e.catalog, e.map)
EntryOk(e) == EntryResult(e).ok /\ EntryResult(e).value.is_ok

\* C16: an entry whose values are all sound is rejected with DuplicateField (of a
\* repeated field) when `on`, `modifier` or `action` occurs more than once, rejected
\* with MissingField (of an absent field) when nothing is repeated and `on` or `action`
\* is absent, and accepted with modifier None when it has exactly one `on`, exactly
\* one `action` and no `modifier`; and when any entry of a table fails no
\* configuration is produced: the error of the first failing entry is what the caller
\* gets.
C16_EntryFieldErrors ==
    /\ (OneEntry /\ SoundValues(TheEntry, TheContext)) =>
          /\ (\E f \in FieldNames : Count(TheEntry, f) > 1) =>
                \E f \in FieldNames : Count(TheEntry, f) > 1 /\ Rejected(duplicate_field(f))
          /\ (/\ \A f \in FieldNames : Count(TheEntry, f) <= 1
              /\ \E f \in {"on", "action"} : Count(TheEntry, f) = 0) =>
                \E f \in {"on", "action"} :
                    Count(TheEntry, f) = 0 /\ Rejected(missing_field(f))
          /\ (/\ Count(TheEntry, "on") = 1
              /\ Count(TheEntry, "action") = 1
              /\ Count(TheEntry, "modifier") = 0) =>
                /\ Accepted
                /\ ParsedBinding.modifier = "None"
                /\ \E i, j \in 1..Len(TheEntry) :
                      /\ TheEntry[i].field = "on"
                      /\ TheEntry[j].field = "action"
                      /\ ParsedBinding =
                             Keybinding(Char(TheEntry[i].token[1]), "None", TheEntry[j].name)
    /\ Deserialised =>
          \A i \in 1..Len(EntriesInOrder) :
              (/\ ~EntryOk(EntriesInOrder[i])
               /\ \A j \in 1..(i - 1) : EntryOk(EntriesInOrder[j])) =>
                  /\ ~Accepted
                  /\ EntryResult(EntriesInOrder[i]).ok =>
                        Rejected(EntryResult(EntriesInOrder[i]).value.e)

\* C16 witness: a second `on` after a sound `on` and `action` was rejected as a
\* duplicate field.
C16_Witness ==
    /\ OneEntry
    /\ TheEntry = <<OnPair(<<"a">>), ActionPair("Quit"), OnPair(<<"j">>)>>
    /\ Rejected(duplicate_field("on"))

\* C17: a token of one character that is accepted, in an entry without modifier,
\* becomes the character key of that character, and the display string of the
\* binding is that one character again; every token of one one-byte character is
\* accepted.
C17_SingleCharRoundTrip ==
    (TokenShaped /\ Len(TheEntry) = 2 /\ Len(OnToken) = 1) =>
        /\ len_utf8(OnToken[1]) = 1 => Accepted
        /\ Accepted => ParsedBinding = Keybinding(Char(OnToken[1]), "None", "Quit")
        /\ parse_pc \in {"rendered", "render_aborted"} =>
              legend.display = Returned(Join(OnToken))

\* C17 witness: the token `a` was accepted and rendered as `a`.
C17_Witness ==
    /\ TokenShaped
    /\ Len(TheEntry) = 2
    /\ OnToken = <<"a">>
    /\ parse_pc = "rendered"
    /\ legend.display = Returned("a")

\* C20: keycode_string returns a display string for every binding of an accepted
\* configuration, <MODIFIER>-<KEY> under Ctrl or Shift and <KEY> otherwise; the call
\* never fails.
C20_EveryAcceptedChordRenders ==
    /\ parse_pc # "render_aborted"
    /\ parse_pc = "rendered" =>
          LET kb == legend.keybinding
              key == key_string(kb.on)
          IN  /\ key.ok
              /\ legend.display =
                     Returned(IF kb.modifier = "Ctrl" THEN "CTRL-" \o key.value
                              ELSE IF kb.modifier = "Shift" THEN "SHIFT-" \o key.value
                              ELSE key.value)

\* Some entry of the table carries a modifier that is no KeyModifier or an action that
\* is no variant of its context's catalog.
UnsoundNames(e) ==
    \E i \in 1..Len(e.map) :
        \/ e.map[i].field = "modifier" /\ e.map[i].name \notin KeyModifier
        \/ e.map[i].field = "action" /\ e.map[i].name \notin e.catalog

\* C21: table_to_keymap never aborts: it returns to its caller for every table, and
\* for a table with an entry whose modifier is no allowed modifier or whose action is
\* no variant of the context's catalog it returns an error and no configuration.
C21_MalformedEntryYieldsErr ==
    Deserialised =>
        /\ parse_pc # "aborted"
        /\ parse_result.ok
        /\ (\E i \in 1..Len(EntriesInOrder) : UnsoundNames(EntriesInOrder[i])) =>
              (parse_pc = "failed" /\ ~parse_result.value.is_ok)

====
